---- MODULE Spec2Model ----
(***************************************************************************)
(* Runtime validators of common-schemas: the Wearable validator (schema    *)
(* check, locale-duplication check, standard XOR third-party) and the      *)
(* enumeration modules (Network, NFTCategory, PropsCategory) whose schema  *)
(* fragment is computed while the module initialises.                      *)
(*                                                                         *)
(* JSON-like values are tagged records.  Each tag has its own payload      *)
(* field, so values of different types are never confused:                 *)
(*   Str("a"), Num(1), Null, Undefined, Arr(<<...>>), Obj(f)               *)
(* where f maps the own property names of the object to their values.      *)
(***************************************************************************)
EXTENDS Integers, Sequences, FiniteSets, TLC

VARIABLES
  wearable,   \* the value handed to Wearable.validate / isStandard / isThirdParty
  op,         \* the exported function last called on it ("none" before a call)
  ret,        \* its outcome: "true", "false", "throws" ("none" before a call)
  pc,         \* per enumeration module: the next top-level statement to run
  obj,        \* per enumeration module: the enum object's own properties, in insertion order
  ecall,      \* the last call of an enumeration's validate: [m, v] (or NoCall)
  eret        \* its outcome

vars == <<wearable, op, ret, pc, obj, ecall, eret>>

----------------------------------------------------------------------------
(* Values *)

Str(s) == [t |-> "string", s |-> s]
Num(n) == [t |-> "number", n |-> n]
Null == [t |-> "null"]
Undefined == [t |-> "undefined"]
Arr(a) == [t |-> "array", a |-> a]
Obj(o) == [t |-> "object", o |-> o]

NoProps == [k \in {} |-> Null]

\* wearable.k on an object: the own property, or undefined.
Get(w, k) == IF w.t = "object" /\ k \in DOMAIN w.o THEN w.o[k] ELSE Undefined

\* !!v
ToBoolean(v) ==
  CASE v.t = "undefined" -> FALSE
    [] v.t = "null" -> FALSE
    [] v.t = "string" -> v.s # ""
    [] v.t = "number" -> v.n # 0
    [] OTHER -> TRUE

Outcome(b) == IF b THEN "true" ELSE "false"

----------------------------------------------------------------------------
(* Bounds of the inputs *)

MaxI18n == 2
MaxKeys == 2
MaxProof == 1

SeqsUpTo(S, n) == UNION {[1..k -> S] : k \in 0..n}

----------------------------------------------------------------------------
(* Collaborators of the Wearable module that live in other modules of the  *)
(* repository: validators generated from their schemas.                    *)

RarityValues == {"unique", "mythic", "legendary", "epic", "rare", "uncommon", "common"}
RarityValidate(v) == v.t = "string" /\ v.s \in RarityValues

WearableCategoryValues == {"hat", "eyewear", "upper_body"}
WearableCategoryValidate(v) == v.t = "string" /\ v.s \in WearableCategoryValues

LocaleValues == {"en", "es"}
I18NValidate(v) ==
  /\ v.t = "object"
  /\ DOMAIN v.o = {"code", "text"}
  /\ v.o["code"].t = "string" /\ v.o["code"].s \in LocaleValues
  /\ v.o["text"].t = "string"

WearableRepresentationValidate(v) ==
  /\ v.t = "object"
  /\ "mainFile" \in DOMAIN v.o
  /\ v.o["mainFile"].t = "string"

IsString(v) == v.t = "string"
IsNull(v) == v.t = "null"
IsArray(v) == v.t = "array"
Items(v) == {v.a[i] : i \in 1..Len(v.a)}

\* MerkleProof.validate: proof, index, hashingKeys and entityHash are required.
MerkleProofValidate(v) ==
  /\ v.t = "object"
  /\ {"proof", "index", "hashingKeys", "entityHash"} \subseteq DOMAIN v.o
  /\ IsArray(v.o["proof"]) /\ \A x \in Items(v.o["proof"]) : IsString(x)
  /\ v.o["index"].t = "number"
  /\ IsArray(v.o["hashingKeys"]) /\ \A x \in Items(v.o["hashingKeys"]) : IsString(x)
  /\ v.o["entityHash"].t = "string"

----------------------------------------------------------------------------
(* Wearable.schema *)

NonEmptyString(v) == v.t = "string" /\ v.s # ""

DataSchema(v) ==
  /\ v.t = "object"
  /\ {"replaces", "hides", "tags", "representations", "category"} \subseteq DOMAIN v.o
  /\ DOMAIN v.o \subseteq {"replaces", "hides", "tags", "representations", "category"}
  /\ IsArray(v.o["replaces"]) /\ \A x \in Items(v.o["replaces"]) : WearableCategoryValidate(x)
  /\ IsArray(v.o["hides"]) /\ \A x \in Items(v.o["hides"]) : WearableCategoryValidate(x)
  /\ IsArray(v.o["tags"]) /\ \A x \in Items(v.o["tags"]) : NonEmptyString(x)
  /\ IsArray(v.o["representations"]) /\ \A x \in Items(v.o["representations"]) : WearableRepresentationValidate(x)
  /\ Len(v.o["representations"].a) >= 1
  /\ WearableCategoryValidate(v.o["category"])

ContentSchema(v) ==
  v.t = "object" /\ \A k \in DOMAIN v.o : v.o[k].t = "string"

WearableRequired == {"id", "description", "name", "data", "thumbnail", "image", "i18n"}

\* The schema of one declared property; properties the schema does not
\* declare are accepted as they are (additionalProperties: true).  menuBarIcon
\* and metrics are declared too; no value below carries them.
PropertySchema(k, v) ==
  CASE k \in {"id", "description", "name", "thumbnail", "image"} -> IsString(v)
    [] k = "collectionAddress" -> IsNull(v) \/ IsString(v)
    [] k = "rarity" -> IsNull(v) \/ RarityValidate(v)
    [] k = "i18n" -> IsArray(v) /\ (\A x \in Items(v) : I18NValidate(x)) /\ Len(v.a) >= 1
    [] k = "data" -> DataSchema(v)
    [] k = "merkleProof" -> IsNull(v) \/ MerkleProofValidate(v)
    [] k = "content" -> IsNull(v) \/ ContentSchema(v)
    [] OTHER -> TRUE

schemaValidator(w) ==
  /\ w.t = "object"
  /\ WearableRequired \subseteq DOMAIN w.o
  /\ \A k \in DOMAIN w.o : PropertySchema(k, w.o[k])

----------------------------------------------------------------------------
(* The hand-written checks of the Wearable module *)

\* wearable.hasOwnProperty(key).  The method is looked up on the wearable
\* first: an own property of that name hides Object.prototype's, and a JSON
\* value is never callable, so the call throws a TypeError.
HasOwnPropertyShadowed(w) == "hasOwnProperty" \in DOMAIN w.o

validateThirdParty(w) ==
  IF w.t \in {"null", "undefined"} THEN "throws"
  ELSE IF ~MerkleProofValidate(Get(w, "merkleProof")) THEN "false"
  ELSE LET hashingKeys == Get(w, "merkleProof").o["hashingKeys"].a
           proof == Get(w, "merkleProof").o["proof"].a
       IN IF Len(hashingKeys) = 0 THEN "false"
          ELSE IF HasOwnPropertyShadowed(w) THEN "throws"
          ELSE LET containsAllKeys ==
                     \A i \in 1..Len(hashingKeys) : hashingKeys[i].s \in DOMAIN w.o
                   proofIsNotEmpty == Len(proof) > 0
               IN Outcome(containsAllKeys /\ proofIsNotEmpty)

validateStandardWearable_RarityOnly(rarity, collectionAddress) ==
  RarityValidate(rarity)

validateStandardWearable(rarity, collectionAddress) ==
  RarityValidate(rarity) /\ ToBoolean(collectionAddress)

isStandard(w) ==
  IF w.t \in {"null", "undefined"} THEN "throws"
  ELSE Outcome(validateStandardWearable(Get(w, "rarity"), Get(w, "collectionAddress")))

isThirdParty(w) == validateThirdParty(w)

XOR_Or(b1, b2) == b1 \/ b2

XOR(b1, b2) == (b1 /\ ~b2) \/ (b2 /\ ~b1)

\* i18ns.findIndex((i18n) => i18n.code === code), 0-based, -1 when absent.
FindIndexOfCode(i18ns, code) ==
  IF \E j \in 1..Len(i18ns) : i18ns[j].o["code"] = code
  THEN (CHOOSE j \in 1..Len(i18ns) :
          /\ i18ns[j].o["code"] = code
          /\ \A l \in 1..(j - 1) : i18ns[l].o["code"] # code) - 1
  ELSE -1

FindIndexOfEntry(i18ns, e) ==
  IF \E j \in 1..Len(i18ns) : i18ns[j] = e
  THEN (CHOOSE j \in 1..Len(i18ns) :
          /\ i18ns[j] = e
          /\ \A l \in 1..(j - 1) : i18ns[l] # e) - 1
  ELSE -1

validateDuplicatedLocales_WholeEntry(i18ns) ==
  \A i \in 1..Len(i18ns) : FindIndexOfEntry(i18ns, i18ns[i]) = i - 1

validateDuplicatedLocales(i18ns) ==
  \A i \in 1..Len(i18ns) : FindIndexOfCode(i18ns, i18ns[i].o["code"]) = i - 1

validate_StandardOnly(w) ==
  IF ~schemaValidator(w) THEN "false"
  ELSE IF ~validateDuplicatedLocales(Get(w, "i18n").a) THEN "false"
  ELSE Outcome(validateStandardWearable(Get(w, "rarity"), Get(w, "collectionAddress")))

\* schemaValidator(w) && validateDuplicatedLocales(w.i18n) && XOR(std, tp):
\* && short-circuits, and both arguments of XOR are evaluated before XOR is
\* called, so a throw of validateThirdParty is a throw of validate.
validate(w) ==
  IF ~schemaValidator(w) THEN "false"
  ELSE IF ~validateDuplicatedLocales(Get(w, "i18n").a) THEN "false"
  ELSE LET std == validateStandardWearable(Get(w, "rarity"), Get(w, "collectionAddress"))
           tp == validateThirdParty(w)
       IN IF tp = "throws" THEN "throws" ELSE Outcome(XOR(std, tp = "true"))

----------------------------------------------------------------------------
(* The values the validators are called on *)

Field(k, vs) == {NoProps} \cup {k :> v : v \in vs}

GoodData ==
  Obj([replaces |-> Arr(<<>>),
       hides |-> Arr(<<Str("eyewear")>>),
       tags |-> Arr(<<Str("tag")>>),
       representations |-> Arr(<<Obj([mainFile |-> Str("m.glb")])>>),
       category |-> Str("hat")])

BaseOk ==
  [id |-> Str("urn:w1"), name |-> Str("n"), description |-> Str("d"),
   thumbnail |-> Str("t.png"), image |-> Str("i.png"), data |-> GoodData]

I18nEntries ==
  {Obj([code |-> Str("en"), text |-> Str("a")]),
   Obj([code |-> Str("en"), text |-> Str("b")]),
   Obj([code |-> Str("es"), text |-> Str("a")])}

I18nOptions == Field("i18n", {Arr(s) : s \in SeqsUpTo(I18nEntries, MaxI18n)})

RarityOptions == Field("rarity", {Null, Str("unique"), Str("bogus")})

CollectionAddressOptions ==
  Field("collectionAddress", {Null, Str(""), Str("0x1"), Num(42)})

HashingKeyNames == {Str("id"), Str("content")}

MerkleProofOptions ==
  Field("merkleProof",
        {Null, Obj([proof |-> Arr(<<Str("0xp")>>), index |-> Num(0),
                    hashingKeys |-> Arr(<<Str("id")>>)])}
        \cup {Obj([proof |-> Arr(p), index |-> Num(0),
                   hashingKeys |-> Arr(ks), entityHash |-> Str("h")]) :
                ks \in SeqsUpTo(HashingKeyNames, MaxKeys),
                p \in SeqsUpTo({Str("0xp")}, MaxProof)})

ContentOptions == Field("content", {Obj([file |-> Str("hash")])})

ShadowOptions == Field("hasOwnProperty", {Str("x")})

DefaultI18n == "i18n" :> Arr(<<Obj([code |-> Str("en"), text |-> Str("a")])>>)

\* Not wearables at all, and wearables whose fixed part breaks the schema.
MalformedInputs ==
  {Null, Str("wearable"),
   Obj([k \in DOMAIN BaseOk \ {"id"} |-> BaseOk[k]] @@ DefaultI18n
       @@ ("rarity" :> Str("unique")) @@ ("collectionAddress" :> Str("0x1"))),
   Obj([BaseOk EXCEPT !["name"] = Num(7)] @@ DefaultI18n
       @@ ("rarity" :> Str("unique")) @@ ("collectionAddress" :> Str("0x1"))),
   Obj([BaseOk EXCEPT !["data"] = Obj(GoodData.o @@ ("extra" :> Str("e")))] @@ DefaultI18n
       @@ ("rarity" :> Str("unique")) @@ ("collectionAddress" :> Str("0x1")))}

Inputs ==
  MalformedInputs
  \cup {Obj(BaseOk @@ i @@ r @@ c @@ m @@ n @@ h) :
          i \in I18nOptions, r \in RarityOptions, c \in CollectionAddressOptions,
          m \in MerkleProofOptions, n \in ContentOptions, h \in ShadowOptions}

----------------------------------------------------------------------------
(* Calls of the exported functions of the Wearable module *)

Modules == {"Network", "NFTCategory", "PropsCategory"}
NoCall == [m |-> "none", v |-> Undefined]

\* No enumeration module has started to initialise.
InitEnums ==
  /\ pc = [m \in Modules |-> "enum"]
  /\ obj = [m \in Modules |-> <<>>]
  /\ ecall = NoCall
  /\ eret = "none"

Init ==
  /\ wearable \in Inputs
  /\ op = "none"
  /\ ret = "none"
  /\ InitEnums

CallValidate ==
  /\ op = "none"
  /\ op' = "validate"
  /\ ret' = validate(wearable)
  /\ UNCHANGED <<wearable, pc, obj, ecall, eret>>

CallIsStandard ==
  /\ op = "none"
  /\ op' = "isStandard"
  /\ ret' = isStandard(wearable)
  /\ UNCHANGED <<wearable, pc, obj, ecall, eret>>

CallIsThirdParty ==
  /\ op = "none"
  /\ op' = "isThirdParty"
  /\ ret' = isThirdParty(wearable)
  /\ UNCHANGED <<wearable, pc, obj, ecall, eret>>

\* The caller has the outcome; the value may be handed to another function.
Return ==
  /\ op # "none"
  /\ op' = "none"
  /\ ret' = "none"
  /\ UNCHANGED <<wearable, pc, obj, ecall, eret>>

Next == CallValidate \/ CallIsStandard \/ CallIsThirdParty \/ Return

Spec == Init /\ [][Next]_vars

----------------------------------------------------------------------------
(* The vocabulary of the properties, stated on the value itself *)

IsObject(w) == w.t = "object"
Has(w, k) == IsObject(w) /\ k \in DOMAIN w.o

LocaleCodes(w) ==
  LET a == w.o["i18n"].a IN {a[i].o["code"].s : i \in 1..Len(a)}

\* The i18n property is a list of entries (a code and a text each).
HasI18nList(w) ==
  /\ Has(w, "i18n")
  /\ w.o["i18n"].t = "array"
  /\ \A i \in 1..Len(w.o["i18n"].a) : I18NValidate(w.o["i18n"].a[i])

PairwiseDistinctLocales(w) ==
  LET a == w.o["i18n"].a
  IN \A i, j \in 1..Len(a) : i # j => a[i].o["code"].s # a[j].o["code"].s

\* A valid rarity and a collectionAddress that is a non-empty string.
StandardFields(w) ==
  /\ Has(w, "rarity") /\ w.o["rarity"].t = "string" /\ w.o["rarity"].s \in RarityValues
  /\ Has(w, "collectionAddress") /\ w.o["collectionAddress"].t = "string"
  /\ w.o["collectionAddress"].s # ""

\* A merkleProof that passes MerkleProof validation, has at least one hashing
\* key, names only own properties of the wearable and has a non-empty proof.
WellFormedProof(w) ==
  /\ Has(w, "merkleProof")
  /\ MerkleProofValidate(w.o["merkleProof"])
  /\ LET ks == w.o["merkleProof"].o["hashingKeys"].a
     IN /\ Len(ks) >= 1
        /\ \A i \in 1..Len(ks) : ks[i].s \in DOMAIN w.o
  /\ Len(w.o["merkleProof"].o["proof"].a) >= 1

Accepted == op = "validate" /\ ret = "true"

----------------------------------------------------------------------------
(* Properties of the Wearable validator *)

\* C1: for every input, Wearable.validate returns true if and only if the
\* value passes the schema validator, no two i18n entries share a locale code
\* and exactly one of standard / third-party holds; otherwise it returns false.
C1_ValidateIffSchemaAndSemantics ==
  op = "validate" =>
    ret = Outcome(/\ schemaValidator(wearable)
                  /\ PairwiseDistinctLocales(wearable)
                  /\ StandardFields(wearable) # WellFormedProof(wearable))

\* C2 (as claimed): every accepted value for which isStandard holds carries
\* neither a merkleProof property nor a content property.
C2_StandardLacksProofAndContent ==
  (Accepted /\ isStandard(wearable) = "true") =>
    (~Has(wearable, "merkleProof") /\ ~Has(wearable, "content"))

\* C2 (amended): every accepted value for which isStandard holds is not
\* third-party: a merkleProof property it carries is null or not well formed.
\* A content property may be present.
C2_StandardIsNotThirdParty ==
  (Accepted /\ isStandard(wearable) = "true") =>
    (~WellFormedProof(wearable)
     /\ (Has(wearable, "merkleProof") =>
           \/ wearable.o["merkleProof"].t = "null"
           \/ Len(wearable.o["merkleProof"].o["hashingKeys"].a) = 0
           \/ \E i \in 1..Len(wearable.o["merkleProof"].o["hashingKeys"].a) :
                ~Has(wearable, wearable.o["merkleProof"].o["hashingKeys"].a[i].s)
           \/ Len(wearable.o["merkleProof"].o["proof"].a) = 0))

\* C2: an accepted standard wearable that carries a content property and an
\* ill-formed merkleProof object.
C2_Witness ==
  /\ Accepted
  /\ isStandard(wearable) = "true"
  /\ Has(wearable, "content")
  /\ Has(wearable, "merkleProof")
  /\ wearable.o["merkleProof"].t = "object"

\* C3 (as claimed): every accepted value for which isThirdParty holds carries
\* neither a rarity property nor a collectionAddress property.
C3_ThirdPartyLacksRarityAndAddress ==
  (Accepted /\ isThirdParty(wearable) = "true") =>
    (~Has(wearable, "rarity") /\ ~Has(wearable, "collectionAddress"))

\* C3 (amended): every accepted value for which isThirdParty holds is not
\* standard: it does not carry both a valid rarity and a non-empty
\* collectionAddress.  Either property alone may be present.
C3_ThirdPartyIsNotStandard ==
  (Accepted /\ isThirdParty(wearable) = "true") =>
    ~(/\ Has(wearable, "rarity")
      /\ RarityValidate(wearable.o["rarity"])
      /\ Has(wearable, "collectionAddress")
      /\ wearable.o["collectionAddress"].t = "string"
      /\ wearable.o["collectionAddress"].s # "")

\* C3: an accepted third-party wearable that carries a valid rarity and no
\* collectionAddress.
C3_Witness ==
  /\ Accepted
  /\ isThirdParty(wearable) = "true"
  /\ Has(wearable, "rarity")
  /\ RarityValidate(wearable.o["rarity"])
  /\ ~Has(wearable, "collectionAddress")

\* C4: Wearable.validate never throws: every call returns a boolean, and
\* false for a value that does not pass the schema.
C4_ValidateNeverThrows ==
  op = "validate" =>
    /\ ret \in {"true", "false"}
    /\ (~schemaValidator(wearable) => ret = "false")

\* C5: a wearable whose i18n list holds two entries with the same locale code
\* is rejected (validate returns false) whatever its other fields are, and
\* validateDuplicatedLocales is true exactly when the codes are pairwise distinct.
C5_DuplicatedLocalesRejected ==
  HasI18nList(wearable) =>
    /\ (validateDuplicatedLocales(wearable.o["i18n"].a)
          <=> Cardinality(LocaleCodes(wearable)) = Len(wearable.o["i18n"].a))
    /\ (op = "validate" /\ ~PairwiseDistinctLocales(wearable) => ret = "false")

\* C5: an otherwise valid standard wearable with the locale en twice (with
\* different texts) has been rejected.
C5_Witness ==
  /\ op = "validate"
  /\ ret = "false"
  /\ schemaValidator(wearable)
  /\ StandardFields(wearable)
  /\ ~Has(wearable, "merkleProof")
  /\ wearable.o["i18n"]
       = Arr(<<Obj([code |-> Str("en"), text |-> Str("a")]),
               Obj([code |-> Str("en"), text |-> Str("b")])>>)

\* C6: a wearable with both standard fields and a well-formed merkleProof is
\* rejected: validate returns false.
C6_BothShapesRejected ==
  (op = "validate" /\ StandardFields(wearable) /\ WellFormedProof(wearable))
    => ret = "false"

\* C7: isThirdParty(wearable) is true if and only if the merkleProof is well
\* formed; a hashing key absent from the wearable makes it false.
C7_IsThirdPartyIffWellFormedProof ==
  (op = "isThirdParty" /\ IsObject(wearable)) =>
    ret = Outcome(WellFormedProof(wearable))

\* C9 (as claimed): isStandard(wearable) is true if and only if rarity passes
\* the Rarity validator and collectionAddress is a non-empty string.
C9_IsStandardIffNonEmptyString ==
  (op = "isStandard" /\ IsObject(wearable)) =>
    ret = Outcome(StandardFields(wearable))

\* C9 (amended): isStandard(wearable) is true if and only if rarity passes the
\* Rarity validator and collectionAddress is truthy: a non-empty string, or a
\* value that is not a string and is neither missing, null nor 0.  A missing
\* or null rarity, and a missing, null or empty-string collectionAddress, each
\* make it false.
C9_IsStandardIffTruthyAddress ==
  (op = "isStandard" /\ IsObject(wearable)) =>
    /\ ret = Outcome(/\ Has(wearable, "rarity")
                     /\ RarityValidate(wearable.o["rarity"])
                     /\ Has(wearable, "collectionAddress")
                     /\ wearable.o["collectionAddress"] \notin {Null, Str(""), Num(0)})
    /\ (~Has(wearable, "rarity") \/ Get(wearable, "rarity") = Null => ret = "false")
    /\ (Get(wearable, "collectionAddress") \in {Undefined, Null, Str("")} => ret = "false")

\* C9: isStandard has returned true for a collectionAddress that is the number 42.
C9_Witness ==
  /\ op = "isStandard"
  /\ ret = "true"
  /\ Get(wearable, "collectionAddress") = Num(42)

----------------------------------------------------------------------------
(* The enumeration modules.  A module's top-level statements run in order:  *)
(* the enum declaration (which creates the object and its string members),  *)
(* then the statements of the merged namespace, each of which attaches one  *)
(* more own property to the same object.                                    *)

Member(k, v) == [k |-> k, v |-> v]

EnumMembers(m) ==
  CASE m = "Network" ->
         <<Member("ETHEREUM", Str("ETHEREUM")), Member("MATIC", Str("MATIC")),
           Member("BSC", Str("BSC")), Member("TEST", Str("TEST"))>>
    [] m = "NFTCategory" ->
         <<Member("PARCEL", Str("parcel")), Member("ESTATE", Str("estate")),
           Member("WEARABLE", Str("wearable")), Member("PROPS", Str("props")),
           Member("ENS", Str("ens")), Member("EMOTE", Str("emote"))>>
    [] m = "PropsCategory" ->
         <<Member("DIAMOND", Str("diamond")), Member("BOX", Str("box")),
           Member("FRAGMENTS", Str("fragments")), Member("VIBRANIUM", Str("vibranium"))>>

ObjectKeys(o) == [i \in 1..Len(o) |-> Str(o[i].k)]

\* Object.values(o): the values of the own enumerable properties, in insertion order.
ObjectValues(o) == [i \in 1..Len(o) |-> o[i].v]

\* The statements of the namespace body, in source order.
NamespaceOrder_ValidateFirst == <<"validate", "schema", "ready">>

NamespaceOrder == <<"schema", "validate", "ready">>

StatementAfter(st) ==
  IF st = "enum" THEN NamespaceOrder[1]
  ELSE NamespaceOrder[1 + CHOOSE i \in 1..Len(NamespaceOrder) : NamespaceOrder[i] = st]

HasProperty(o, k) == \E i \in 1..Len(o) : o[i].k = k
Property(o, k) == o[CHOOSE i \in 1..Len(o) : o[i].k = k].v

\* The exported schema fragment's enum list.
SchemaEnum(m) == Property(obj[m], "schema").enum

\* The predicate generateValidator returns for {type: 'string', enum: list}.
GeneratedValidator(list, v) ==
  v.t = "string" /\ \E i \in 1..Len(list) : list[i] = v

\* Modules are evaluated one at a time, each to its end.
NoneInitialising(m) == \A o \in Modules \ {m} : pc[o] \in {"enum", "ready"}

EnumDeclaration(m) ==
  /\ pc[m] = "enum"
  /\ NoneInitialising(m)
  /\ obj' = [obj EXCEPT ![m] = EnumMembers(m)]
  /\ pc' = [pc EXCEPT ![m] = StatementAfter("enum")]
  /\ UNCHANGED <<wearable, op, ret, ecall, eret>>

NamespaceSchema(m) ==
  /\ pc[m] = "schema"
  /\ obj' = [obj EXCEPT ![m] =
               Append(@, Member("schema",
                                [t |-> "schema", type |-> "string",
                                 enum |-> ObjectValues(obj[m])]))]
  /\ pc' = [pc EXCEPT ![m] = StatementAfter("schema")]
  /\ UNCHANGED <<wearable, op, ret, ecall, eret>>

NamespaceValidate(m) ==
  /\ pc[m] = "validate"
  /\ obj' = [obj EXCEPT ![m] = Append(@, Member("validate", [t |-> "function"]))]
  /\ pc' = [pc EXCEPT ![m] = StatementAfter("validate")]
  /\ UNCHANGED <<wearable, op, ret, ecall, eret>>

TestValues ==
  {Str(s) : s \in {"ETHEREUM", "MATIC", "BSC", "TEST", "parcel", "estate", "wearable",
                   "props", "ens", "emote", "diamond", "box", "fragments", "vibranium",
                   "ethereum", "Bsc", "PARCEL", "Emote", "DIAMOND", "Box", "",
                   "schema", "validate"}}
  \cup {Num(0), Num(1), Null, Undefined, Arr(<<Str("ETHEREUM")>>),
        Obj([type |-> Str("string")])}

CallEnumValidate(m, v) ==
  /\ pc[m] = "ready"
  /\ ecall' = [m |-> m, v |-> v]
  /\ eret' = Outcome(GeneratedValidator(SchemaEnum(m), v))
  /\ UNCHANGED <<wearable, op, ret, pc, obj>>

EnumInit ==
  /\ wearable = Undefined
  /\ op = "none"
  /\ ret = "none"
  /\ InitEnums

EnumNext ==
  \E m \in Modules :
    \/ EnumDeclaration(m)
    \/ NamespaceSchema(m)
    \/ NamespaceValidate(m)
    \/ \E v \in TestValues : CallEnumValidate(m, v)

EnumSpec == EnumInit /\ [][EnumNext]_vars

----------------------------------------------------------------------------
(* Properties of the enumeration modules *)

DeclaredValues(m) ==
  CASE m = "Network" -> {"ETHEREUM", "MATIC", "BSC", "TEST"}
    [] m = "NFTCategory" -> {"parcel", "estate", "wearable", "props", "ens", "emote"}
    [] m = "PropsCategory" -> {"diamond", "box", "fragments", "vibranium"}

\* C8: for each enumeration, validate(v) is true for every declared value and
\* false for every other value: any other string (also one that differs only
\* in letter case) and any value that is not a string.
C8_EnumValidateIsMembership ==
  ecall.m \in Modules =>
    eret = Outcome(ecall.v.t = "string" /\ ecall.v.s \in DeclaredValues(ecall.m))

\* C8: PropsCategory.validate has rejected "DIAMOND", which differs from a
\* declared value only in letter case.
C8_Witness ==
  /\ ecall = [m |-> "PropsCategory", v |-> Str("DIAMOND")]
  /\ eret = "false"
  /\ pc = [m \in Modules |-> "ready"]

\* C10: in each enumeration module the schema's enum list is computed before
\* schema and validate are attached to the enum object: it holds exactly the
\* declared string constants, never the schema object or the validate function.
C10_EnumListIsDeclaredConstants ==
  \A m \in Modules :
    HasProperty(obj[m], "schema") =>
      /\ {SchemaEnum(m)[i] : i \in 1..Len(SchemaEnum(m))}
           = {Str(s) : s \in DeclaredValues(m)}
      /\ Len(SchemaEnum(m)) = Cardinality(DeclaredValues(m))
      /\ \A i \in 1..Len(SchemaEnum(m)) : SchemaEnum(m)[i].t = "string"

\* C10: every module has finished initialising, schema and validate attached.
C10_Witness ==
  \A m \in Modules :
    /\ pc[m] = "ready"
    /\ HasProperty(obj[m], "schema")
    /\ HasProperty(obj[m], "validate")
    /\ Len(SchemaEnum(m)) = Cardinality(DeclaredValues(m))

====
